---------------------------- MODULE Spec2Model ----------------------------
(***************************************************************************)
(* Model of the log analyzer's coordinator (src/coordinator.py) and worker *)
(* (src/worker.py).                                                        *)
(*                                                                         *)
(* The log file is a sequence of one-character strings.  It is built from  *)
(* a sequence of line kinds (fileLines), each rendered to its text and     *)
(* followed by a line terminator, so that what Worker.process_chunk finds  *)
(* by scanning the text can be compared with what the lines are.           *)
(*                                                                         *)
(* Coordinator.assign_task and worker registration are not part of the     *)
(* source: a call of assign_task is taken to be acknowledged and is logged *)
(* in dispatched; os.path.getsize is taken to return the file's size.      *)
(* The modules the code names without importing them (os, asyncio,         *)
(* aiohttp) are taken to be imported.                                      *)
(* In Spec one distribute_work pass is one step; in SpecAsync a pass is     *)
(* suspended at every await of assign_task and other handlers run in       *)
(* between.  SpecHeartbeat is the heartbeat loop of the workers.           *)
(***************************************************************************)
EXTENDS Integers, Sequences, FiniteSets, TLC

\* Bounds of the model.
MaxWorkers == 3
MaxLines == 2
MaxFailures == 1

VARIABLES
    fileLines,   \* the kinds of the lines of the log file (fixed per job)
    workers,     \* Coordinator.workers: the registered worker ids, in dict order
    results,     \* Coordinator.results: task key -> stored result
    dispatched,  \* log of the assign_task calls: [worker, start, size, pass]
    passes,      \* number of distribute_work passes run so far
    failed,      \* the workers handle_worker_failure has removed, in order
    reported,    \* the result Worker.process_chunk returned last, if any
    lastError,   \* the exception the most recent operation raised, or "none"
    running,     \* the distribute_work passes suspended at an await of assign_task
    unreachable, \* the assign_task calls that raised: [worker, pass]
    hb           \* Worker.report_health of each worker: position and last outcome

vars ==
    <<fileLines, workers, results, dispatched, passes, failed, reported, lastError,
      running, unreachable, hb>>

\* the state only the suspended passes and the heartbeat loops change
others == <<running, unreachable, hb>>

-----------------------------------------------------------------------------
(* Text helpers: Python's str operations on sequences of characters.       *)

NL == "\n"

Whitespace == {" ", NL, "\t"}

Digits == <<"0", "1", "2", "3", "4", "5", "6", "7", "8", "9">>

DigitSet == {Digits[i] : i \in 1..Len(Digits)}

DigitValue(c) == (CHOOSE i \in 1..Len(Digits) : Digits[i] = c) - 1

Min(a, b) == IF a < b THEN a ELSE b

\* pat occurs in s at position i (1-based)
OccursAt(s, pat, i) ==
    /\ i >= 1
    /\ i + Len(pat) - 1 <= Len(s)
    /\ \A k \in 1..Len(pat) : s[i + k - 1] = pat[k]

\* Python: pat in s
Contains(s, pat) == \E i \in 1..(Len(s) + 1) : OccursAt(s, pat, i)

\* Python: s.strip(chars) / s.strip(): drop the characters of cs at both ends
StripChars(s, cs) ==
    LET keep == {i \in 1..Len(s) : s[i] \notin cs}
    IN  IF keep = {} THEN <<>>
        ELSE LET lo == CHOOSE i \in keep : \A j \in keep : i <= j
                 hi == CHOOSE i \in keep : \A j \in keep : j <= i
             IN  SubSeq(s, lo, hi)

\* Python: s.split(sep), scanning left to right: the piece up to the next
\* occurrence of sep at or after position i, then the pieces after it
RECURSIVE SplitFrom(_, _, _)
SplitFrom(s, sep, i) ==
    LET hits == {j \in i..Len(s) : OccursAt(s, sep, j)}
    IN  IF hits = {} THEN <<SubSeq(s, i, Len(s))>>
        ELSE LET j == CHOOSE j \in hits : \A k \in hits : j <= k
             IN  <<SubSeq(s, i, j - 1)>> \o SplitFrom(s, sep, j + Len(sep))

Split(s, sep) == SplitFrom(s, sep, 1)

\* value of a sequence of decimal digits
RECURSIVE DecimalValue(_)
DecimalValue(ds) ==
    IF ds = <<>> THEN 0
    ELSE 10 * DecimalValue(SubSeq(ds, 1, Len(ds) - 1)) + DigitValue(ds[Len(ds)])

\* Python: int(s) accepts surrounding whitespace, one sign and decimal digits
IntBody(s) ==
    LET t == StripChars(s, Whitespace)
    IN  IF t # <<>> /\ t[1] \in {"+", "-"} THEN SubSeq(t, 2, Len(t)) ELSE t

IntNegative(s) ==
    LET t == StripChars(s, Whitespace) IN t # <<>> /\ t[1] = "-"

IntParses(s) ==
    LET body == IntBody(s)
    IN  /\ body # <<>>
        /\ \A i \in 1..Len(body) : body[i] \in DigitSet

IntValue(s) ==
    IF IntNegative(s) THEN 0 - DecimalValue(IntBody(s)) ELSE DecimalValue(IntBody(s))

RECURSIVE SumSeq(_)
SumSeq(xs) == IF xs = <<>> THEN 0 ELSE xs[1] + SumSeq(Tail(xs))


-----------------------------------------------------------------------------
(* The log file.                                                           *)

\* the two markers Worker.process_chunk looks for
ErrorMarker == <<"E", "R", "R", "O", "R">>

RequestMarker ==
    <<"R", "e", "q", "u", "e", "s", "t", " ", "p", "r", "o", "c", "e", "s",
      "s", "e", "d", " ", "i", "n">>

\* the kinds of line a log file of the model is made of
LineKinds == {"err", "req10", "req20", "bad", "blank", "info"}

RequestKinds == {"req10", "req20", "req30"}

Duration(kind) ==
    CASE kind = "req10" -> 10
      [] kind = "req20" -> 20
      [] kind = "req30" -> 30

DurationText(kind) ==
    CASE kind = "req10" -> <<"1", "0">>
      [] kind = "req20" -> <<"2", "0">>
      [] kind = "req30" -> <<"3", "0">>
      [] kind = "bad"   -> <<"x">>

\* the text of a line, without its terminator
LineText(kind) ==
    CASE kind = "err"   -> ErrorMarker
      [] kind = "blank" -> <<>>
      [] kind = "info"  -> <<"o", "k">>
      [] OTHER          -> RequestMarker \o <<" ">> \o DurationText(kind) \o <<"m", "s">>

RECURSIVE Render(_)
Render(kinds) ==
    IF kinds = <<>> THEN <<>>
    ELSE LineText(kinds[1]) \o <<NL>> \o Render(Tail(kinds))

\* the 10-line file of the specification's example: 2 error lines and
\* 3 request lines of 10, 20 and 30
ExampleLines ==
    <<"info", "err", "req10", "info", "req20", "info", "err", "info", "req30", "info">>

LinesUpTo(n) == UNION {[1..k -> LineKinds] : k \in 0..n}

Files == LinesUpTo(MaxLines) \cup {ExampleLines}

file == Render(fileLines)

\* os.path.getsize(filepath)
file_size == Len(file)

-----------------------------------------------------------------------------
(* Worker.process_chunk                                                    *)

\* file.seek(start); file.read(size)
ReadChunk(f, start, size) == SubSeq(f, start + 1, Min(start + size, Len(f)))

\* mutant of ChunkLines: the chunk is split without being stripped first
ChunkLinesNoStrip(chunk) == Split(chunk, <<NL>>)

\* chunk.strip().split("\n")
ChunkLines(chunk) == Split(StripChars(chunk, Whitespace), <<NL>>)

IsErrorLine(line) == Contains(line, ErrorMarker)

IsRequestLine(line) == Contains(line, RequestMarker)

\* line.split("in")[-1].strip("ms"), the text handed to int()
TimeText(line) ==
    LET parts == Split(line, <<"i", "n">>)
    IN  StripChars(parts[Len(parts)], {"m", "s"})

ErrorCount(lines) == Len(SelectSeq(lines, IsErrorLine))

ResponseTimes(lines) ==
    LET reqs == SelectSeq(lines, IsRequestLine)
    IN  [i \in 1..Len(reqs) |-> IntValue(TimeText(reqs[i]))]

\* int() raises ValueError on the first request line whose duration is no number
Raises(lines) ==
    \E i \in 1..Len(lines) : IsRequestLine(lines[i]) /\ ~IntParses(TimeText(lines[i]))

\* a quotient a / b of the code is kept exact, as the pair <<a, b>>
Metrics(lines) ==
    LET error_count == ErrorCount(lines)
        response_times == ResponseTimes(lines)
        request_count == Len(response_times)
    IN  [raised |-> "none",
         error_rate |-> <<error_count, Len(lines)>>,
         avg_response_time |->
             IF request_count > 0 THEN <<SumSeq(response_times), request_count>>
             ELSE <<0, 1>>,
         request_count |-> request_count]

Raised(exc) ==
    [raised |-> exc, error_rate |-> <<0, 1>>, avg_response_time |-> <<0, 1>>,
     request_count |-> 0]

process_chunk(f, start, size) ==
    LET lines == ChunkLines(ReadChunk(f, start, size))
    IN  IF Raises(lines) THEN Raised("ValueError") ELSE Metrics(lines)

-----------------------------------------------------------------------------
(* Coordinator                                                             *)

WorkerIds == 1..MaxWorkers

\* mutant of ChunkSize: the chunk size is rounded up
ChunkSizeCeil(size, n) == (size + n - 1) \div n

\* chunk_size = file_size // len(self.workers)
ChunkSize(size, n) == size \div n

\* the assign_task calls of one distribute_work pass, in the order of the loop:
\* the worker, the start and the size handed to each call
RECURSIVE PassFrom(_, _, _, _)
PassFrom(ws, start, chunk_size, pass) ==
    IF ws = <<>> THEN <<>>
    ELSE LET end == start + chunk_size
         IN  <<[worker |-> ws[1], start |-> start, size |-> chunk_size, pass |-> pass]>>
                 \o PassFrom(Tail(ws), end, chunk_size, pass)

Pass(ws, size, pass) == PassFrom(ws, 0, ChunkSize(size, Len(ws)), pass)

\* assign_task(worker_id, filepath, start, chunk_size): the call is acknowledged
AssignTask(log, calls) == log \o calls

\* self.workers.pop(worker_id)
Pop(ws, w) == SelectSeq(ws, LAMBDA x : x # w)

\* mutant of Registered: pop never raises KeyError (pop with a default)
RegisteredAlways(w) == TRUE

\* worker_id is a key of self.workers (else self.workers.pop raises KeyError)
Registered(w) == \E i \in 1..Len(workers) : workers[i] = w

Init ==
    /\ fileLines \in Files
    /\ workers = <<>>
    /\ results = <<>>
    /\ dispatched = <<>>
    /\ passes = 0
    /\ failed = <<>>
    /\ reported = {}
    /\ lastError = "none"
    /\ running = {}
    /\ unreachable = {}
    /\ hb = [w \in WorkerIds |-> [pc |-> "post", last |-> "none", shutdown |-> FALSE]]

\* register(worker_id, address): workers register before the file is partitioned
Register ==
    /\ passes = 0
    /\ Len(workers) < MaxWorkers
    /\ workers' = Append(workers, Len(workers) + 1)
    /\ lastError' = "none"
    /\ UNCHANGED <<fileLines, results, dispatched, passes, failed, reported>>
    /\ UNCHANGED others

\* the body of distribute_work over the worker table ws
DistributeOver(ws) ==
    IF Len(ws) = 0
    THEN /\ lastError' = "ZeroDivisionError"
         /\ UNCHANGED <<dispatched, passes>>
    ELSE /\ dispatched' = AssignTask(dispatched, Pass(ws, file_size, passes + 1))
         /\ passes' = passes + 1
         /\ lastError' = "none"

\* Coordinator.distribute_work(filepath), called to start the job
DistributeWork ==
    /\ passes = 0
    /\ DistributeOver(workers)
    /\ UNCHANGED <<fileLines, workers, results, failed, reported>>
    /\ UNCHANGED others

\* Coordinator.handle_worker_failure(worker_id)
HandleWorkerFailure(w) ==
    /\ passes > 0
    /\ IF Registered(w)
       THEN /\ Len(failed) < MaxFailures
            /\ workers' = Pop(workers, w)
            /\ failed' = Append(failed, w)
            /\ DistributeOver(workers')
       ELSE /\ lastError' = "KeyError"
            /\ UNCHANGED <<workers, failed, dispatched, passes>>
    /\ UNCHANGED <<fileLines, results, reported>>
    /\ UNCHANGED others

\* a worker runs Worker.process_chunk on a range it was sent and returns the metrics
ProcessChunk(i) ==
    /\ LET d == dispatched[i]
       IN  reported' =
               {[worker |-> d.worker, start |-> d.start, size |-> d.size,
                 result |-> process_chunk(file, d.start, d.size)]}
    /\ reported' # reported
    /\ UNCHANGED <<fileLines, workers, results, dispatched, passes, failed, lastError>>
    /\ UNCHANGED others

Next ==
    \/ Register
    \/ DistributeWork
    \/ \E w \in WorkerIds : HandleWorkerFailure(w)
    \/ \E i \in DOMAIN dispatched : ProcessChunk(i)

Spec == Init /\ [][Next]_vars

-----------------------------------------------------------------------------
(* Coordinator, with a pass suspended at each await of assign_task          *)

\* distribute_work up to its first await: the chunk size, the iterator over
\* self.workers.items() (it remembers the size of the table) and the first
\* assign_task call
StartPass(ws) ==
    IF Len(ws) = 0
    THEN /\ lastError' = "ZeroDivisionError"
         /\ UNCHANGED <<dispatched, passes, running>>
    ELSE LET chunk_size == ChunkSize(file_size, Len(ws))
         IN  /\ dispatched' = Append(dispatched,
                    [worker |-> ws[1], start |-> 0, size |-> chunk_size,
                     pass |-> passes + 1])
             /\ running' = running \cup
                    {[pass |-> passes + 1, chunk_size |-> chunk_size, start |-> 0,
                      idx |-> 1, used |-> Len(ws), worker |-> ws[1]]}
             /\ passes' = passes + 1
             /\ lastError' = "none"

\* Coordinator.distribute_work(filepath), called to start the job
BeginDistributeWork ==
    /\ passes = 0
    /\ StartPass(workers)
    /\ UNCHANGED <<fileLines, workers, results, failed, reported, unreachable, hb>>

\* the awaited assign_task call of pass a returns: start = end, then the next
\* step of the loop; the dict iterator raises RuntimeError when the table
\* changed size since the loop began, and ends the loop after the last item
AssignReturns(a) ==
    /\ a \in running
    /\ IF Len(workers) # a.used
       THEN /\ running' = running \ {a}
            /\ lastError' = "RuntimeError"
            /\ UNCHANGED dispatched
       ELSE IF a.idx = a.used
       THEN /\ running' = running \ {a}
            /\ lastError' = "none"
            /\ UNCHANGED dispatched
       ELSE LET w == workers[a.idx + 1]
                end == a.start + a.chunk_size
            IN  /\ dispatched' = Append(dispatched,
                       [worker |-> w, start |-> end, size |-> a.chunk_size,
                        pass |-> a.pass])
                /\ running' = (running \ {a}) \cup
                       {[a EXCEPT !.start = end, !.idx = a.idx + 1, !.worker = w]}
                /\ lastError' = "none"
    /\ UNCHANGED <<fileLines, workers, results, passes, failed, reported, unreachable, hb>>

\* the awaited assign_task call of pass a raises: nothing in distribute_work
\* catches it, the exception leaves the pass
AssignRaises(a) ==
    /\ a \in running
    /\ running' = running \ {a}
    /\ unreachable' = unreachable \cup {[worker |-> a.worker, pass |-> a.pass]}
    /\ lastError' = "AssignError"
    /\ UNCHANGED <<fileLines, workers, results, dispatched, passes, failed, reported, hb>>

\* Coordinator.handle_worker_failure(worker_id), up to the first await of the
\* pass it starts
HandleWorkerFailureAsync(w) ==
    /\ passes > 0
    /\ IF Registered(w)
       THEN /\ Len(failed) < MaxFailures
            /\ workers' = Pop(workers, w)
            /\ failed' = Append(failed, w)
            /\ StartPass(workers')
       ELSE /\ lastError' = "KeyError"
            /\ UNCHANGED <<workers, failed, dispatched, passes, running>>
    /\ UNCHANGED <<fileLines, results, reported, unreachable, hb>>

NextAsync ==
    \/ Register
    \/ BeginDistributeWork
    \/ \E a \in running : AssignReturns(a)
    \/ \E a \in running : AssignRaises(a)
    \/ \E w \in WorkerIds : HandleWorkerFailureAsync(w)

SpecAsync == Init /\ [][NextAsync]_vars

-----------------------------------------------------------------------------
(* Worker.report_health                                                    *)

\* what awaiting session.post can do: return, or raise an Exception
PostOutcomes == {"ok", "failed"}

\* mutant of AfterPost: an exception of the post leaves the loop
AfterPostReraise(outcome) == IF outcome = "failed" THEN "stopped" ELSE "sleep"

\* where the loop goes after the try/except around the post: the exception is
\* caught and printed, so in both cases on to asyncio.sleep(5)
AfterPost(outcome) == "sleep"

\* await session.post(.../heartbeat) inside try/except Exception
HeartbeatPost(w, outcome) ==
    /\ hb[w].pc = "post"
    /\ hb' = [hb EXCEPT ![w].pc = AfterPost(outcome), ![w].last = outcome]
    /\ UNCHANGED <<fileLines, workers, results, dispatched, passes, failed, reported,
                   lastError, running, unreachable>>

\* await asyncio.sleep(5), then `while True` starts the next iteration
HeartbeatSleep(w) ==
    /\ hb[w].pc = "sleep"
    /\ hb' = [hb EXCEPT ![w].pc = "post"]
    /\ UNCHANGED <<fileLines, workers, results, dispatched, passes, failed, reported,
                   lastError, running, unreachable>>

\* a clean shutdown of worker w is requested; nothing in the loop reads it
RequestShutdown(w) ==
    /\ ~hb[w].shutdown
    /\ hb' = [hb EXCEPT ![w].shutdown = TRUE]
    /\ UNCHANGED <<fileLines, workers, results, dispatched, passes, failed, reported,
                   lastError, running, unreachable>>

HeartbeatInit == Init /\ fileLines = ExampleLines

NextHeartbeat ==
    \E w \in WorkerIds :
        \/ \E outcome \in PostOutcomes : HeartbeatPost(w, outcome)
        \/ HeartbeatSleep(w)
        \/ RequestShutdown(w)

\* the event loop resumes a coroutine whose await has completed
HeartbeatFairness ==
    \A w \in WorkerIds :
        /\ WF_vars(\E outcome \in PostOutcomes : HeartbeatPost(w, outcome))
        /\ WF_vars(HeartbeatSleep(w))

SpecHeartbeat == HeartbeatInit /\ [][NextHeartbeat]_vars /\ HeartbeatFairness

-----------------------------------------------------------------------------
(* Vocabulary of the properties                                            *)

\* the assign_task calls of pass p, in order
PassCalls(p) == SelectSeq(dispatched, LAMBDA d : d.pass = p)

\* the byte offsets of a dispatched range
Bytes(d) == d.start .. (d.start + d.size - 1)

Range(d) == <<d.start, d.size>>

RECURSIVE SumSizes(_)
SumSizes(calls) == IF calls = <<>> THEN 0 ELSE calls[1].size + SumSizes(Tail(calls))

\* offset b is the start of the file or comes right after a line terminator
AtLineStart(b) == b = 0 \/ (b <= Len(file) /\ file[b] = NL)

\* the offset at which line i + 1 of the file starts (the file's size for the last i)
LineStart(i) == Len(Render(SubSeq(fileLines, 1, i)))

\* the range is made of one or more whole lines of the file
WholeLines(start, size) ==
    \E i, j \in 0..Len(fileLines) :
        i < j /\ LineStart(i) = start /\ LineStart(j) = start + size

\* the kinds of the lines of a range made of whole lines
KindsOf(start, size) ==
    LET i == CHOOSE i \in 0..Len(fileLines) : LineStart(i) = start
        j == CHOOSE j \in 0..Len(fileLines) : LineStart(j) = start + size
    IN  SubSeq(fileLines, i + 1, j)

CountKinds(kinds, S) == Cardinality({i \in 1..Len(kinds) : kinds[i] \in S})

RECURSIVE SumDurations(_)
SumDurations(kinds) ==
    IF kinds = <<>> THEN 0
    ELSE (IF kinds[1] \in RequestKinds THEN Duration(kinds[1]) ELSE 0)
             + SumDurations(Tail(kinds))

\* the quotients <<a, b>> and <<c, d>> are the same number
SameQuotient(q, r) == q[1] * r[2] = r[1] * q[2]

\* the lines left once the blank lines at both ends of the chunk are dropped;
\* a chunk of blank lines only leaves one (empty) line
StrippedLineCount(kinds) ==
    LET keep == {i \in 1..Len(kinds) : kinds[i] # "blank"}
    IN  IF keep = {} THEN 1
        ELSE LET lo == CHOOSE i \in keep : \A j \in keep : i <= j
                 hi == CHOOSE i \in keep : \A j \in keep : j <= i
             IN  hi - lo + 1

\* totals of the metrics process_chunk returns over the calls of a pass
RECURSIVE TotalRequests(_)
TotalRequests(calls) ==
    IF calls = <<>> THEN 0
    ELSE process_chunk(file, calls[1].start, calls[1].size).request_count
             + TotalRequests(Tail(calls))

RECURSIVE TotalErrors(_)
TotalErrors(calls) ==
    IF calls = <<>> THEN 0
    ELSE LET m == process_chunk(file, calls[1].start, calls[1].size)
         IN  (IF m.raised = "none" THEN m.error_rate[1] ELSE 0)
                 + TotalErrors(Tail(calls))

-----------------------------------------------------------------------------
(* Properties                                                              *)

\* C1: the ranges of every distribute_work pass are ordered by offset, do not
\* overlap, start at offset 0 and their lengths sum to the file size.
C1_Claim ==
    \A p \in 1..passes :
        LET c == PassCalls(p)
        IN  /\ c[1].start = 0
            /\ \A i \in 1..(Len(c) - 1) : c[i].start + c[i].size <= c[i + 1].start
            /\ SumSizes(c) = file_size

\* C2: the set of ranges ever dispatched equals the set of ranges of the first
\* pass: a worker failure never changes the boundaries or the number of ranges.
C2_Claim ==
    passes >= 1 =>
        {Range(dispatched[i]) : i \in DOMAIN dispatched}
            = {Range(PassCalls(1)[i]) : i \in DOMAIN PassCalls(1)}

\* C3: no byte held by a surviving worker is dispatched a second time: every
\* byte of the file is in at most one range dispatched to a non-failed worker.
C3_Claim ==
    \A b \in 0..(file_size - 1) :
        Cardinality({i \in DOMAIN dispatched :
                        Registered(dispatched[i].worker) /\ b \in Bytes(dispatched[i])}) <= 1

\* C4: after one of n >= 2 workers failed and handle_worker_failure completed,
\* every byte of the failed worker's range is in a range the recovery pass
\* dispatched to a surviving worker.
C4_Claim ==
    (Len(failed) = 1 /\ passes = 2) =>
        LET lost == CHOOSE d \in {dispatched[i] : i \in DOMAIN dispatched} :
                        d.pass = 1 /\ d.worker = failed[1]
        IN  \A b \in Bytes(lost) :
                \E i \in DOMAIN dispatched :
                    /\ dispatched[i].pass = 2
                    /\ Registered(dispatched[i].worker)
                    /\ b \in Bytes(dispatched[i])

\* C5: every boundary between two consecutive ranges of a pass falls right
\* after a line terminator of the file.
C5_Claim ==
    \A p \in 1..passes :
        LET c == PassCalls(p)
        IN  \A i \in 2..Len(c) : AtLineStart(c[i].start)

\* C6: summed over the ranges of a pass, process_chunk finds the request count
\* and the number of error lines that it finds over the whole file as one chunk.
C6_Claim ==
    LET whole == process_chunk(file, 0, file_size)
    IN  whole.raised = "none" =>
            \A p \in 1..passes :
                /\ TotalRequests(PassCalls(p)) = whole.request_count
                /\ TotalErrors(PassCalls(p)) = whole.error_rate[1]

\* what C7 says of a chunk of whole lines whose request lines all carry a
\* number, with the chunk's line count given
MetricsOfLines(m, kinds, line_count) ==
    /\ m.raised = "none"
    /\ m.request_count = CountKinds(kinds, RequestKinds)
    /\ IF m.request_count > 0
       THEN SameQuotient(m.avg_response_time,
                         <<SumDurations(kinds), CountKinds(kinds, RequestKinds)>>)
       ELSE SameQuotient(m.avg_response_time, <<0, 1>>)
    /\ SameQuotient(m.error_rate, <<CountKinds(kinds, {"err"}), line_count>>)

\* the reports C7 is about
WellFormedReport(r) ==
    /\ WholeLines(r.start, r.size)
    /\ CountKinds(KindsOf(r.start, r.size), {"bad"}) = 0

C8_Claim ==
    \A r \in reported :
        (WholeLines(r.start, r.size)
            /\ CountKinds(KindsOf(r.start, r.size), {"bad"}) > 0) =>
                /\ r.result.raised = "none"
                /\ r.result.request_count
                       = CountKinds(KindsOf(r.start, r.size), RequestKinds)

\* C9: a result that was reported for a range is stored once in
\* Coordinator.results.
C9_Claim ==
    \A r \in reported :
        r.result.raised = "none" => Range(r) \in DOMAIN results

\* C10: distribute_work never dispatches a range of length zero.
C10_Claim ==
    \A i \in DOMAIN dispatched : dispatched[i].size > 0

\* C11: the partitioning step never fails with an arithmetic error, also when
\* the worker table is empty.
C11_Claim == lastError # "ZeroDivisionError"

\* w is a key of the worker table
InTable(w) == w \in {workers[i] : i \in DOMAIN workers}

\* C13: handle_worker_failure(w) takes w out of the worker table before it
\* redistributes, so none of the ranges it dispatches goes to w; an invocation
\* for a worker that is no longer in the table dispatches nothing and leaves
\* the table unchanged.
C13_Once ==
    [][\A w \in WorkerIds :
          HandleWorkerFailure(w) =>
              IF InTable(w)
              THEN /\ \A i \in DOMAIN workers' : workers'[i] # w
                   /\ \A i \in (Len(dispatched) + 1)..Len(dispatched') :
                          dispatched'[i].worker # w
              ELSE /\ workers' = workers
                   /\ dispatched' = dispatched]_vars

\* witness of C13: every worker id was registered, one worker failed and was
\* recovered by a pass, and a later invocation found its key gone
C13_Witness ==
    /\ Len(workers) + Len(failed) = MaxWorkers
    /\ Len(failed) = 1
    /\ passes = 2
    /\ lastError = "KeyError"

\* C14: a range is dispatched only to a worker that holds none: while no
\* range has been completed, no registered worker was sent two ranges.
C14_Claim ==
    reported = {} =>
        \A w \in WorkerIds :
            InTable(w) =>
                Cardinality({i \in DOMAIN dispatched : dispatched[i].worker = w}) <= 1

\* C16: handle_worker_failure keeps the failed worker's entry in the
\* coordinator's worker bookkeeping.
C16_Claim ==
    \A k \in DOMAIN failed : InTable(failed[k])

\* C19: a pass over n >= 1 workers issues n assignments, one per worker in
\* table order, the i-th (from 0) at offset i * floor(S / n) with length
\* floor(S / n); the bytes never assigned are the trailing S mod n bytes.
C19_Pass ==
    \A p \in 1..passes :
        LET c == PassCalls(p)
            n == Len(c)
            q == file_size \div n
            assigned == UNION {Bytes(c[i]) : i \in DOMAIN c}
        IN  /\ n >= 1
            /\ n = Len(workers) + Len(failed) - (p - 1)
            /\ \A i \in 1..n : c[i].start = (i - 1) * q /\ c[i].size = q
            /\ \A i \in 1..(n - 1) : c[i].worker < c[i + 1].worker
            /\ (p = passes /\ Len(workers) > 0) =>
                   [i \in 1..n |-> c[i].worker] = workers
            /\ assigned = 0..(n * q - 1)
            /\ (0..(file_size - 1)) \ assigned
                   = (file_size - (file_size % n))..(file_size - 1)
            /\ file_size % n < n

\* witness of C19: a pass over 3 workers left trailing bytes unassigned
C19_Witness ==
    /\ passes >= 1
    /\ Len(PassCalls(1)) = 3
    /\ file_size % 3 # 0

\* handle_worker_failure has run for worker w
Recovered(w) == \E k \in DOMAIN failed : failed[k] = w

\* C12: once a pass in which an assign call raised is over, the unreachable
\* worker has been handled as a failed worker and every worker of the table
\* was sent its range of that pass.
C12_Claim ==
    \A u \in unreachable :
        (\A a \in running : a.pass # u.pass) =>
            /\ Recovered(u.worker)
            /\ \A w \in WorkerIds :
                   InTable(w) =>
                       \E i \in DOMAIN dispatched :
                           dispatched[i].pass = u.pass /\ dispatched[i].worker = w

\* C15: the worker table is not changed while a pass iterates over it, and
\* no two passes run with different worker counts at the same time.
C15_Claim ==
    /\ \A a \in running : a.used = Len(workers)
    /\ \A a, b \in running : a.used = b.used
    /\ lastError # "RuntimeError"

\* C17: after a clean shutdown is requested the heartbeat loop eventually
\* stops.
C17_Claim ==
    \A w \in WorkerIds : hb[w].shutdown ~> (hb[w].pc = "stopped")

\* C18: a failed post does not end the heartbeat loop: the loop is never left,
\* every post, failed or not, is followed by the wait and the wait by a new
\* post, so posts are attempted infinitely often.
C18_Heartbeats ==
    \A w \in WorkerIds :
        /\ [](hb[w].pc # "stopped")
        /\ []<>(hb[w].pc = "post")
        /\ []<>(hb[w].pc = "sleep")
        /\ (hb[w].pc = "sleep" /\ hb[w].last = "failed") ~> (hb[w].pc = "post")

\* witness of C18: after a failed post the loop is at a new post
C18_Witness ==
    \E w \in WorkerIds : hb[w].pc = "post" /\ hb[w].last = "failed"

=============================================================================
